---- MODULE Spec2Model ----
(***************************************************************************)
(* Model of Sonnet_Retrieval_2024W/sonnet_retrieval.py: the tokenizer      *)
(* (Document.tokenize), the inverted index (Index.__init__, Index.add,     *)
(* Index.search), the read loop (user_interface) and main.                 *)
(*                                                                         *)
(* A Python str is modelled as a sequence of one-character strings, so     *)
(* that re.sub, str.lower, str.split and str.strip are computed character  *)
(* by character as the interpreter computes them.                          *)
(***************************************************************************)
EXTENDS Naturals, Sequences, FiniteSets, TLC

VARIABLES
    pc,            \* position of the running program
    sonnets,       \* main: the list returned by load_sonnets
    documents,     \* Index.documents
    index,         \* the dict part of Index: token -> set of ids
    indexCreated,  \* whether Index.__init__ has been entered
    next,          \* Index.__init__: position of the for loop over documents
    raw_input,     \* user_interface: the line input() returned
    user_input,    \* user_interface: raw_input.strip()
    query,         \* the lines of the last Query passed to Index.search
    found,         \* the outcome of the last Index.search call
    nInputs,       \* number of input() calls so far
    nSearches,     \* number of Index.search calls so far
    tokLines,      \* Document.lines of the document being tokenized
    tokStem,       \* the use_stemming argument
    tokOut         \* the list Document.tokenize returned

vars == <<pc, sonnets, documents, index, indexCreated, next, raw_input,
          user_input, query, found, nInputs, nSearches, tokLines, tokStem,
          tokOut>>

\* ------------------------------------------------------------------ bounds

MaxDocs == 3
MaxInputs == 2
MaxLines == 2
MaxLineLen == 2

\* ------------------------------------------------------------- characters

\* The character class of the regular expression in Document.tokenize.
Punctuation == {".", ",", "'", ":", ";", "!", "?"}

\* The ASCII characters str.split() and str.strip() treat as whitespace.
Whitespace == {" ", "\t", "\n", "\r", "\f"}

UpperCase ==
    <<"A","B","C","D","E","F","G","H","I","J","K","L","M",
      "N","O","P","Q","R","S","T","U","V","W","X","Y","Z">>

LowerCase ==
    <<"a","b","c","d","e","f","g","h","i","j","k","l","m",
      "n","o","p","q","r","s","t","u","v","w","x","y","z">>

Range(s) == {s[i] : i \in 1..Len(s)}

RECURSIVE Concat(_)
\* list.extend applied to each element in turn: the lists joined in order.
Concat(ss) ==
    IF ss = <<>> THEN <<>> ELSE Head(ss) \o Concat(Tail(ss))

\* ---------------------------------------------------------------- strings

\* A mutant of ReSub: the character class lacks the question mark.
ReSubNoQuestionMark(line) ==
    SelectSeq(line, LAMBDA c : c \notin (Punctuation \ {"?"}))

\* re.sub(r"[.,':;!?]", "", line)
ReSub(line) ==
    SelectSeq(line, LAMBDA c : c \notin Punctuation)

LowerChar(c) ==
    IF \E i \in 1..Len(UpperCase) : UpperCase[i] = c
    THEN LowerCase[CHOOSE i \in 1..Len(UpperCase) : UpperCase[i] = c]
    ELSE c

\* A mutant of Lower: the line is left as it is.
LowerIdentity(line) ==
    line

\* str.lower()
Lower(line) ==
    [i \in 1..Len(line) |-> LowerChar(line[i])]

RECURSIVE SplitFrom(_, _, _, _)
\* The scan of str.split(): i is the next position, cur the word being
\* read, acc the words read so far.
SplitFrom(s, i, cur, acc) ==
    IF i > Len(s)
    THEN IF cur = <<>> THEN acc ELSE Append(acc, cur)
    ELSE IF s[i] \in Whitespace
         THEN SplitFrom(s, i + 1, <<>>,
                        IF cur = <<>> THEN acc ELSE Append(acc, cur))
         ELSE SplitFrom(s, i + 1, Append(cur, s[i]), acc)

RECURSIVE SplitSepFrom(_, _, _, _)
SplitSepFrom(s, i, cur, acc) ==
    IF i > Len(s)
    THEN Append(acc, cur)
    ELSE IF s[i] \in Whitespace
         THEN SplitSepFrom(s, i + 1, <<>>, Append(acc, cur))
         ELSE SplitSepFrom(s, i + 1, Append(cur, s[i]), acc)

\* A mutant of Split: str.split(" "), which keeps the empty words.
SplitKeepEmpty(s) ==
    SplitSepFrom(s, 1, <<>>, <<>>)

\* str.split() with no separator: the maximal runs of non-whitespace.
Split(s) ==
    SplitFrom(s, 1, <<>>, <<>>)

RECURSIVE LStrip(_)
LStrip(s) ==
    IF s # <<>> /\ Head(s) \in Whitespace THEN LStrip(Tail(s)) ELSE s

RECURSIVE RStrip(_)
RStrip(s) ==
    IF s # <<>> /\ s[Len(s)] \in Whitespace
    THEN RStrip(SubSeq(s, 1, Len(s) - 1))
    ELSE s

\* str.strip()
Strip(s) ==
    RStrip(LStrip(s))

\* ---------------------------------------------------------------- stemmer

EndsWith(w, suffix) ==
    /\ Len(w) >= Len(suffix)
    /\ SubSeq(w, Len(w) - Len(suffix) + 1, Len(w)) = suffix

DropLast(w, n) ==
    SubSeq(w, 1, Len(w) - n)

\* PorterStemmer.stem(token, 0, len(token) - 1), imported from the module
\* porter_stemmer.  The rules here are the ones the design document states
\* in full: a word of at most two characters is returned unchanged, and the
\* plural reduction sses -> ss, ies -> i, s -> "" (not after another s).
\* On the words used below the later steps of the algorithm change nothing.
stem(w) ==
    IF Len(w) <= 2 THEN w
    ELSE IF EndsWith(w, <<"s","s","e","s">>) THEN DropLast(w, 2)
    ELSE IF EndsWith(w, <<"i","e","s">>) THEN DropLast(w, 2)
    ELSE IF EndsWith(w, <<"s">>) /\ ~EndsWith(w, <<"s","s">>) THEN DropLast(w, 1)
    ELSE w

\* -------------------------------------------------------------- tokenizer

\* Document.tokenize, line 40: one line cleaned.
CleanLine(line) ==
    Lower(ReSub(line))

\* Document.tokenize(use_stemming)
Tokenize(lines, use_stemming) ==
    LET tokens == Concat([i \in 1..Len(lines) |-> Split(CleanLine(lines[i]))])
    IN  IF use_stemming
        THEN [i \in 1..Len(tokens) |-> stem(tokens[i])]
        ELSE tokens

\* ------------------------------------------------------------------ index

Sonnet(sonnet) ==
    [id |-> sonnet.number, title |-> sonnet.name, lines |-> sonnet.lines]

EmptyIndex == <<>>

\* dict.__setitem__: the dict with key bound to value.
SetItem(idx, key, value) ==
    [k \in (DOMAIN idx) \cup {key} |-> IF k = key THEN value ELSE idx[k]]

\* A mutant of AddToken: the id is recorded only when the token is new.
AddTokenOnlyWhenNew(idx, token, id) ==
    IF token \notin DOMAIN idx THEN SetItem(idx, token, {id}) ELSE idx

\* Index.add, lines 81-83: one token of the document.
AddToken(idx, token, id) ==
    LET withKey == IF token \notin DOMAIN idx
                   THEN SetItem(idx, token, {})
                   ELSE idx
    IN  SetItem(withKey, token, withKey[token] \cup {id})

RECURSIVE AddTokens(_, _, _)
AddTokens(idx, tokens, id) ==
    IF tokens = <<>> THEN idx
    ELSE AddTokens(AddToken(idx, Head(tokens), id), Tail(tokens), id)

\* Index.add(document)
IndexAdd(idx, document) ==
    AddTokens(idx, Tokenize(document.lines, TRUE), document.id)

\* Index.search, line 97: the posting sets of the query tokens in the index.
RelevantTokens(idx, query_tokens) ==
    LET present == SelectSeq(query_tokens, LAMBDA t : t \in DOMAIN idx)
    IN  [i \in 1..Len(present) |-> idx[present[i]]]

\* A mutant of AnyTokenMissing: the found posting sets are intersected on
\* their own.
AnyTokenMissingIgnored(relevant_tokens, query_tokens) ==
    FALSE

\* Index.search, line 102
AnyTokenMissing(relevant_tokens, query_tokens) ==
    Len(relevant_tokens) < Len(query_tokens)

\* A mutant of SetIntersection: the union of the posting sets.
SetUnion(sets) ==
    UNION Range(sets)

\* set.intersection(*sets), for a non-empty list of sets
SetIntersection(sets) ==
    {x \in sets[1] : \A i \in 1..Len(sets) : x \in sets[i]}

RECURSIVE InsertById(_, _)
\* doc placed after every element whose id is not greater: a stable sort.
InsertById(sorted, doc) ==
    IF sorted = <<>> THEN <<doc>>
    ELSE IF sorted[Len(sorted)].id <= doc.id THEN Append(sorted, doc)
    ELSE Append(InsertById(SubSeq(sorted, 1, Len(sorted) - 1), doc),
                sorted[Len(sorted)])

RECURSIVE SortFrom(_, _, _)
SortFrom(docs, i, acc) ==
    IF i > Len(docs) THEN acc
    ELSE SortFrom(docs, i + 1, InsertById(acc, docs[i]))

\* A mutant of SortedById: the matches in collection order.
SortedByIdNot(docs) ==
    docs

\* sorted(docs, key=lambda x: x.id)
SortedById(docs) ==
    SortFrom(docs, 1, <<>>)

\* Index.search, line 93: "if not query_tokens"
NoQueryTokens(query_tokens) ==
    query_tokens = <<>>

\* Index.search, line 98: "if not relevant_tokens"
NoRelevantTokens(relevant_tokens) ==
    relevant_tokens = <<>>

\* The outcome of an Index.search call: the list returned; whether an
\* exception was raised; the number of "token in self" tests and of
\* posting sets fetched (self[token]); whether set.intersection was
\* called; and the Index object (dict and documents) after the call.
Outcome(result, raised, tested, lookups, intersected, idx, docs) ==
    [result |-> result, raised |-> raised, tested |-> tested,
     lookups |-> lookups, intersected |-> intersected,
     index |-> idx, documents |-> docs]

\* A mutant of IndexSearch: self.documents.sort(key=...) before filtering,
\* which reorders the retained collection.
IndexSearchSortInPlace(idx, docs, lines) ==
    LET query_tokens == Tokenize(lines, TRUE)
        relevant_tokens == RelevantTokens(idx, query_tokens)
        sorted == SortedById(docs)
        nq == Len(query_tokens)
        nr == Len(relevant_tokens)
    IN  IF NoQueryTokens(query_tokens)
        THEN Outcome(<<>>, FALSE, 0, 0, FALSE, idx, docs)
        ELSE IF NoRelevantTokens(relevant_tokens)
        THEN Outcome(<<>>, FALSE, nq, nr, FALSE, idx, docs)
        ELSE IF AnyTokenMissing(relevant_tokens, query_tokens)
        THEN Outcome(<<>>, FALSE, nq, nr, FALSE, idx, docs)
        ELSE LET matching_ids == SetIntersection(relevant_tokens)
             IN  Outcome(SelectSeq(sorted, LAMBDA doc : doc.id \in matching_ids),
                         FALSE, nq, nr, TRUE, idx, sorted)

\* Index.search(query), with query.lines = lines.  set.intersection()
\* called with no argument raises TypeError.
IndexSearch(idx, docs, lines) ==
    LET query_tokens == Tokenize(lines, TRUE)
        relevant_tokens == RelevantTokens(idx, query_tokens)
        nq == Len(query_tokens)
        nr == Len(relevant_tokens)
    IN  IF NoQueryTokens(query_tokens)
        THEN Outcome(<<>>, FALSE, 0, 0, FALSE, idx, docs)
        ELSE IF NoRelevantTokens(relevant_tokens)
        THEN Outcome(<<>>, FALSE, nq, nr, FALSE, idx, docs)
        ELSE IF AnyTokenMissing(relevant_tokens, query_tokens)
        THEN Outcome(<<>>, FALSE, nq, nr, FALSE, idx, docs)
        ELSE IF relevant_tokens = <<>>
        THEN Outcome(<<>>, TRUE, nq, nr, TRUE, idx, docs)
        ELSE LET matching_ids == SetIntersection(relevant_tokens)
                 matching_sonnets ==
                     SelectSeq(docs, LAMBDA doc : doc.id \in matching_ids)
             IN  Outcome(SortedById(matching_sonnets), FALSE, nq, nr, TRUE,
                         idx, docs)

\* What the caller of Index.search observes of the call.
Returned(r) ==
    [result |-> r.result, raised |-> r.raised, tested |-> r.tested,
     lookups |-> r.lookups, intersected |-> r.intersected]

NoCall ==
    [result |-> <<>>, raised |-> FALSE, tested |-> 0, lookups |-> 0,
     intersected |-> FALSE]

\* ------------------------------------------------------------------ inputs

SP == <<" ">>
wLove == <<"l","o","v","e">>
wLoves == <<"l","o","v","e","s">>
wHate == <<"h","a","t","e">>
wFair == <<"f","a","i","r">>
wIs == <<"i","s">>
wMy == <<"m","y">>
wThe == <<"t","h","e">>
wKing == <<"k","i","n","g">>
wQ == <<"q">>

\* "Love's the king!"
LoveKingLine ==
    <<"L","o","v","e","'","s">> \o SP \o wThe \o SP \o wKing \o <<"!">>

\* The records load_sonnets can return.  The title "Sonnet <number>: <name>"
\* is held as its two parts.
RawSonnet(number, name, lines) ==
    [number |-> number, name |-> name, lines |-> lines]

SonnetPool ==
    { RawSonnet(7, "A", << <<"L","o","v","e","'","s">> \o SP \o wHate \o <<",">> >>),
      RawSonnet(2, "B", << <<"F","a","i","r">> \o SP \o wIs,
                           wMy \o SP \o <<"L","O","V","E","!">> >>),
      RawSonnet(19, "C", << wHate \o SP \o SP \o wHate, wLoves >>),
      RawSonnet(7, "D", << wFair \o SP \o wIs \o SP \o wMy \o SP \o wLove >>),
      RawSonnet(2, "E", << <<>>, <<"?","!">> >>),
      RawSonnet(19, "F", << <<"H","a","t","e",".">> >>) }

SeqsUpTo(S, n) ==
    UNION {[1..k -> S] : k \in 0..n}

Collections ==
    SeqsUpTo(SonnetPool, MaxDocs)

\* The lines input() can return, and the strings a Query is made of.
RawInputs ==
    { <<>>,
      <<" ", "\t">>,
      <<"?", "!">>,
      wLove,
      <<"L","o","v","e","s">> \o SP \o wHate,
      wLove \o SP \o wKing,
      wKing,
      SP \o wFair \o SP \o wLove \o <<"\n">>,
      wQ,
      SP \o wQ \o SP,
      wQ \o SP \o wQ }

TokAlphabet == {"A", " ", "'"}

SampleLines ==
    { LoveKingLine,
      <<"a","\t","B"," "," ","A","'",".">>,
      SP \o <<"k","i","s","s","e","s">> \o SP \o <<"P","o","n","i","e","s","?">>,
      <<":",";"," ",",","!">> }

TokLinePool ==
    SeqsUpTo(TokAlphabet, MaxLineLen) \cup SampleLines

TokInputs ==
    SeqsUpTo(TokLinePool, MaxLines)

\* ----------------------------------------------------------------- actions

Idle ==
    /\ sonnets = <<>>
    /\ documents = <<>>
    /\ index = EmptyIndex
    /\ indexCreated = FALSE
    /\ next = 1
    /\ raw_input = <<>>
    /\ user_input = <<>>
    /\ query = <<>>
    /\ found = NoCall
    /\ nInputs = 0
    /\ nSearches = 0
    /\ tokLines = <<>>
    /\ tokStem = TRUE
    /\ tokOut = <<>>

\* main is entered.
Init ==
    /\ pc = "main"
    /\ Idle

\* load_sonnets: the fetch failed and [] is returned.
LoadFailed ==
    /\ pc = "main"
    /\ sonnets' = <<>>
    /\ pc' = "loaded"
    /\ UNCHANGED <<documents, index, indexCreated, next, raw_input,
                   user_input, query, found, nInputs, nSearches, tokLines,
                   tokStem, tokOut>>

\* load_sonnets: the list parsed from the response or from the file.
LoadParsed ==
    /\ pc = "main"
    /\ \E s \in Collections : sonnets' = s
    /\ pc' = "loaded"
    /\ UNCHANGED <<documents, index, indexCreated, next, raw_input,
                   user_input, query, found, nInputs, nSearches, tokLines,
                   tokStem, tokOut>>

\* main, lines 136-138: nothing was loaded, main returns.
NoSonnets ==
    /\ pc = "loaded"
    /\ sonnets = <<>>
    /\ pc' = "returned"
    /\ UNCHANGED <<sonnets, documents, index, indexCreated, next, raw_input,
                   user_input, query, found, nInputs, nSearches, tokLines,
                   tokStem, tokOut>>

\* main, lines 140-141, and Index.__init__ up to its loop.
CreateIndex ==
    /\ pc = "loaded"
    /\ sonnets # <<>>
    /\ documents' = [i \in 1..Len(sonnets) |-> Sonnet(sonnets[i])]
    /\ index' = EmptyIndex
    /\ indexCreated' = TRUE
    /\ next' = 1
    /\ pc' = "index_init"
    /\ UNCHANGED <<sonnets, raw_input, user_input, query, found, nInputs,
                   nSearches, tokLines, tokStem, tokOut>>

\* A mutant of LoopDone: the loop is left before the last document.
LoopDoneEarly ==
    next >= Len(documents)

\* Index.__init__, line 76: the for loop has no document left.
LoopDone ==
    next > Len(documents)

\* Index.__init__, line 77: one iteration of the loop.
AddDocument ==
    /\ pc = "index_init"
    /\ ~LoopDone
    /\ index' = IndexAdd(index, documents[next])
    /\ next' = next + 1
    /\ UNCHANGED <<pc, sonnets, documents, indexCreated, raw_input,
                   user_input, query, found, nInputs, nSearches, tokLines,
                   tokStem, tokOut>>

\* main, line 142: Index(...) has returned and user_interface is called.
StartUserInterface ==
    /\ pc = "index_init"
    /\ LoopDone
    /\ pc' = "ui"
    /\ UNCHANGED <<sonnets, documents, index, indexCreated, next, raw_input,
                   user_input, query, found, nInputs, nSearches, tokLines,
                   tokStem, tokOut>>

\* A mutant of IsQuit: an empty input ends the loop too.
IsQuitOrEmpty(text) ==
    text = <<"q">> \/ text = <<>>

\* user_interface, line 117
IsQuit(text) ==
    text = <<"q">>

\* user_interface, lines 116-119: the input is 'q'.
Quit ==
    /\ pc = "ui"
    /\ nInputs < MaxInputs
    /\ \E line \in RawInputs :
        /\ IsQuit(Strip(line))
        /\ raw_input' = line
        /\ user_input' = Strip(line)
    /\ nInputs' = nInputs + 1
    /\ pc' = "returned"
    /\ UNCHANGED <<sonnets, documents, index, indexCreated, next, query,
                   found, nSearches, tokLines, tokStem, tokOut>>

\* The call index.search(Query(text)) and its effect on the Index object.
SearchWith(text) ==
    LET r == IndexSearch(index, documents, <<text>>)
    IN  /\ query' = <<text>>
        /\ found' = Returned(r)
        /\ index' = r.index
        /\ documents' = r.documents
        /\ nSearches' = nSearches + 1

\* user_interface, lines 116-128: one pass of the loop for another input.
SearchInput ==
    /\ pc = "ui"
    /\ nInputs < MaxInputs
    /\ \E line \in RawInputs :
        /\ ~IsQuit(Strip(line))
        /\ raw_input' = line
        /\ user_input' = Strip(line)
        /\ SearchWith(Strip(line))
    /\ nInputs' = nInputs + 1
    /\ UNCHANGED <<pc, sonnets, indexCreated, next, tokLines, tokStem, tokOut>>

Next ==
    \/ LoadFailed
    \/ LoadParsed
    \/ NoSonnets
    \/ CreateIndex
    \/ AddDocument
    \/ StartUserInterface
    \/ Quit
    \/ SearchInput

\* A run of main.
Spec == Init /\ [][Next]_vars

\* Index(documents) called on any collection, the empty one included.
InitIndex ==
    /\ pc = "index_init"
    /\ documents \in {[i \in 1..Len(s) |-> Sonnet(s[i])] : s \in Collections}
    /\ index = EmptyIndex
    /\ indexCreated = TRUE
    /\ next = 1
    /\ sonnets = <<>>
    /\ raw_input = <<>>
    /\ user_input = <<>>
    /\ query = <<>>
    /\ found = NoCall
    /\ nInputs = 0
    /\ nSearches = 0
    /\ tokLines = <<>>
    /\ tokStem = TRUE
    /\ tokOut = <<>>

\* Index.__init__ returns.
Constructed ==
    /\ pc = "index_init"
    /\ LoopDone
    /\ pc' = "ready"
    /\ UNCHANGED <<sonnets, documents, index, indexCreated, next, raw_input,
                   user_input, query, found, nInputs, nSearches, tokLines,
                   tokStem, tokOut>>

\* index.search(Query(text)) for any string text.
SearchCall ==
    /\ pc = "ready"
    /\ nSearches < MaxInputs
    /\ \E text \in RawInputs : SearchWith(text)
    /\ UNCHANGED <<pc, sonnets, indexCreated, next, raw_input, user_input,
                   nInputs, tokLines, tokStem, tokOut>>

NextIndex ==
    \/ AddDocument
    \/ Constructed
    \/ SearchCall

\* The Index class used on its own: built from a collection, then searched.
SpecIndex == InitIndex /\ [][NextIndex]_vars

\* A Document with any lines.
InitTok ==
    /\ pc = "tokenize"
    /\ tokLines \in TokInputs
    /\ tokStem = TRUE
    /\ tokOut = <<>>
    /\ sonnets = <<>>
    /\ documents = <<>>
    /\ index = EmptyIndex
    /\ indexCreated = FALSE
    /\ next = 1
    /\ raw_input = <<>>
    /\ user_input = <<>>
    /\ query = <<>>
    /\ found = NoCall
    /\ nInputs = 0
    /\ nSearches = 0

\* Document.tokenize(use_stemming) is called and returns.
TokenizeCall ==
    /\ pc = "tokenize"
    /\ \E use_stemming \in BOOLEAN :
        /\ tokStem' = use_stemming
        /\ tokOut' = Tokenize(tokLines, use_stemming)
    /\ pc' = "tokenized"
    /\ UNCHANGED <<tokLines, sonnets, documents, index, indexCreated, next,
                   raw_input, user_input, query, found, nInputs, nSearches>>

NextTok ==
    TokenizeCall

\* Document.tokenize as a function of the lines and of use_stemming.
SpecTok == InitTok /\ [][NextTok]_vars

\* ------------------------------------------------------------ properties

\* The vocabulary of the statements below, written from the specification's
\* words and not from the code.

\* The seven characters the tokenizer is said to delete.
StrippedChars == {".", ",", "'", ":", ";", "!", "?"}

Blank == {" ", "\t", "\n", "\r", "\f"}

IsUpper(c) == \E i \in 1..Len(UpperCase) : UpperCase[i] = c

\* The identifiers of a collection are pairwise distinct.
DistinctIds(docs) ==
    \A i, j \in 1..Len(docs) : i # j => docs[i].id # docs[j].id

Ids(docs) == [i \in 1..Len(docs) |-> docs[i].id]

\* The set of stemmed tokens of a document, and of the last query.
StemmedTokens(doc) == Range(Tokenize(doc.lines, TRUE))

QueryTokens == Range(Tokenize(query, TRUE))

\* A search on a constructed Index has returned.
Searched == pc = "ready" /\ nSearches > 0

\* The documents that contain every token of the last query.
Matching ==
    {d \in Range(documents) : QueryTokens \subseteq StemmedTokens(d)}

\* C1 as stated: for every collection with pairwise distinct identifiers and
\* every query string, search returns exactly the documents whose stemmed
\* tokens contain every stemmed token of the query.
C1_ExactlyTheMatching ==
    (Searched /\ DistinctIds(documents))
        => Range(found.result) = Matching

\* C1 amended: the same for every query with at least one token, each
\* matching document returned once; a query with no token returns the empty
\* list.
C1_ExactlyTheMatchingOfNonEmptyQuery ==
    (Searched /\ DistinctIds(documents))
        => /\ QueryTokens # {} =>
                /\ Range(found.result) = Matching
                /\ Len(found.result) = Cardinality(Matching)
           /\ QueryTokens = {} => found.result = <<>>

\* A two-token query that returns some documents of the collection and
\* leaves others out.
C1_Witness ==
    /\ Searched
    /\ DistinctIds(documents)
    /\ Cardinality(QueryTokens) = 2
    /\ found.result # <<>>
    /\ Len(found.result) < Len(documents)

\* C2: when a token of the query is not a key of the index, search returns
\* the empty list and the posting sets of the found tokens are not
\* intersected.
C2_AllTokensMustMatch ==
    (Searched /\ \E t \in QueryTokens : t \notin DOMAIN index)
        => /\ found.result = <<>>
           /\ ~found.intersected

\* One token of the query is missing, another is present, and the posting
\* sets of the present ones have a common identifier.
C2_Witness ==
    /\ Searched
    /\ \E t \in QueryTokens : t \notin DOMAIN index
    /\ \E t \in QueryTokens : t \in DOMAIN index
    /\ \E id \in Range(Ids(documents)) :
          \A t \in QueryTokens \cap DOMAIN index : id \in index[t]
    /\ found.result = <<>>

\* Every token a document or a query of the model can produce.
TokenUniverse ==
    (DOMAIN index)
        \cup UNION {Range(Tokenize(s.lines, TRUE)) : s \in SonnetPool}
        \cup UNION {Range(Tokenize(<<q>>, TRUE)) : q \in RawInputs}

\* C3: after construction from a collection with pairwise distinct
\* identifiers, D.id is in index[T] exactly when T is a stemmed token of D;
\* every key is a token of some document, no posting set is empty, and every
\* identifier in a posting set is that of a retained document.
C3_IndexInvariant ==
    (pc = "ready" /\ DistinctIds(documents))
        => /\ \A d \in Range(documents) : \A T \in TokenUniverse :
                (T \in DOMAIN index /\ d.id \in index[T])
                    <=> T \in StemmedTokens(d)
           /\ \A T \in DOMAIN index :
                /\ index[T] # {}
                /\ index[T] \subseteq Range(Ids(documents))
                /\ \E d \in Range(documents) : T \in StemmedTokens(d)

\* An index with a token shared by two documents and lacking in a third.
C3_Witness ==
    /\ pc = "ready"
    /\ DistinctIds(documents)
    /\ \E T \in DOMAIN index :
          /\ Cardinality(index[T]) = 2
          /\ \E d \in Range(documents) : d.id \notin index[T]

StrictlyAscending(ids) ==
    \A i \in 1..Len(ids) : \A j \in 1..Len(ids) : i < j => ids[i] < ids[j]

Ascending(ids) ==
    \A i \in 1..Len(ids) : \A j \in 1..Len(ids) : i < j => ids[i] <= ids[j]

\* C4 as stated: for every index and every query the list returned is in
\* strictly ascending order of identifier.
C4_StrictlyAscending ==
    Searched => StrictlyAscending(Ids(found.result))

\* C4 amended: the list returned is in ascending order of identifier,
\* whatever the order of the collection, and strictly ascending when the
\* identifiers of the collection are pairwise distinct.
C4_Ascending ==
    Searched
        => /\ Ascending(Ids(found.result))
           /\ DistinctIds(documents) => StrictlyAscending(Ids(found.result))

\* The collection holds 7, 2, 19 in this order and all three are returned.
C4_Witness ==
    /\ Searched
    /\ Ids(documents) = <<7, 2, 19>>
    /\ Ids(found.result) = <<2, 7, 19>>

\* The last query is made only of stripped characters and whitespace.
QueryHasNoWord ==
    /\ Len(query) = 1
    /\ \A i \in 1..Len(query[1]) : query[1][i] \in StrippedChars \cup Blank

\* C5: a query that tokenizes to nothing returns the empty list, raises
\* nothing, and neither tests, fetches nor intersects a posting set, for
\* every index.
C5_EmptyQuery ==
    (Searched /\ QueryHasNoWord)
        => /\ found.result = <<>>
           /\ ~found.raised
           /\ found.tested = 0
           /\ found.lookups = 0
           /\ ~found.intersected

\* A whitespace-only query on the index of an empty collection.
C5_Witness ==
    /\ Searched
    /\ documents = <<>>
    /\ query = << <<" ", "\t">> >>
    /\ found.result = <<>>

\* Document.tokenize(use_stemming=False) has returned.
TokenizedPlain == pc = "tokenized" /\ ~tokStem

\* C6 as stated: "Love's the king!" without stemming gives love, the, king.
C6_LoveTheKing ==
    (TokenizedPlain /\ tokLines = <<LoveKingLine>>)
        => tokOut = <<wLove, wThe, wKing>>

\* C6 amended: "Love's the king!" without stemming gives loves, the, king.
C6_LovesTheKing ==
    (TokenizedPlain /\ tokLines = <<LoveKingLine>>)
        => tokOut = <<wLoves, wThe, wKing>>

C6_Witness ==
    /\ TokenizedPlain
    /\ tokLines = <<LoveKingLine>>
    /\ Len(tokOut) = 3

\* The maximal runs of non-whitespace characters of a line, as pairs of
\* positions.
WordSpans(line) ==
    {sp \in (1..Len(line)) \X (1..Len(line)) :
        /\ sp[1] <= sp[2]
        /\ \A k \in sp[1]..sp[2] : line[k] \notin Blank
        /\ sp[1] = 1 \/ line[sp[1] - 1] \in Blank
        /\ sp[2] = Len(line) \/ line[sp[2] + 1] \in Blank}

\* The k-th word of a line, from the left.
WordAt(line, k) ==
    LET sp == CHOOSE x \in WordSpans(line) :
                  Cardinality({y \in WordSpans(line) : y[1] < x[1]}) = k - 1
    IN  SubSeq(line, sp[1], sp[2])

LowerOf(c) ==
    IF IsUpper(c)
    THEN LowerCase[CHOOSE i \in 1..Len(UpperCase) : UpperCase[i] = c]
    ELSE c

\* A word with the stripped characters deleted and the rest in lowercase.
Normalised(word) ==
    LET kept == SelectSeq(word, LAMBDA c : c \notin StrippedChars)
    IN  [i \in 1..Len(kept) |-> LowerOf(kept[i])]

\* The words of a line, normalised, those that reduce to nothing left out.
ExpectedOfLine(line) ==
    SelectSeq([k \in 1..Cardinality(WordSpans(line)) |->
                   Normalised(WordAt(line, k))],
              LAMBDA w : w # <<>>)

RECURSIVE ExpectedTokens(_)
ExpectedTokens(lines) ==
    IF lines = <<>> THEN <<>>
    ELSE ExpectedOfLine(Head(lines)) \o ExpectedTokens(Tail(lines))

\* C7: without stemming, the tokens are the words of each line, in line
\* order and word order, repeated words kept, each with the seven characters
\* deleted and in lowercase; no token is empty or holds whitespace, an
\* uppercase letter or one of the seven characters; a line that is empty or
\* reduces to nothing contributes no token.
C7_TokenizePlain ==
    TokenizedPlain
        => /\ tokOut = ExpectedTokens(tokLines)
           /\ \A i \in 1..Len(tokOut) :
                /\ tokOut[i] # <<>>
                /\ \A k \in 1..Len(tokOut[i]) :
                     /\ tokOut[i][k] \notin Blank
                     /\ tokOut[i][k] \notin StrippedChars
                     /\ ~IsUpper(tokOut[i][k])
           /\ (\A i \in 1..Len(tokLines) : \A k \in 1..Len(tokLines[i]) :
                   tokLines[i][k] \in StrippedChars \cup Blank)
                => tokOut = <<>>

\* Two lines, the second reducing to nothing, the first with a repeated
\* word, an uppercase letter and punctuation inside a word.
C7_Witness ==
    /\ TokenizedPlain
    /\ Len(tokLines) = 2
    /\ tokLines[1] # <<>>
    /\ tokLines[2] # <<>>
    /\ Len(tokOut) >= 2
    /\ \E i \in 1..Len(tokOut) : \E j \in 1..Len(tokOut) :
          i # j /\ tokOut[i] = tokOut[j]
    /\ ExpectedOfLine(tokLines[2]) = <<>>

\* C8: a search call leaves the keys of the index, every posting set, the
\* retained collection and its order, and every document as they were.
C8_SearchReadOnly ==
    [][pc = "ready" => (index' = index /\ documents' = documents)]_vars

\* Two searches, the last for a token that is not a key, on a collection
\* that is not in identifier order.
C8_Witness ==
    /\ pc = "ready"
    /\ nSearches = 2
    /\ \E t \in QueryTokens : t \notin DOMAIN index
    /\ ~Ascending(Ids(documents))
    /\ DOMAIN index # {}

\* C9: in a run of main, a search happens only when Index.add has been
\* applied to every loaded document, and no Index.add follows a search; when
\* nothing is loaded, main returns with no Index created and no input read.
C9_BuildBeforeSearch ==
    /\ [](nSearches > 0 =>
            /\ indexCreated
            /\ Len(documents) = Len(sonnets)
            /\ next = Len(sonnets) + 1)
    /\ [][nSearches > 0 => (next' = next /\ index' = index)]_vars
    /\ [](sonnets = <<>> =>
            /\ ~indexCreated
            /\ nInputs = 0
            /\ nSearches = 0
            /\ pc \in {"main", "loaded", "returned"})
    /\ [][(pc = "loaded" /\ sonnets = <<>>) => pc' = "returned"]_vars

\* A search on the index of three loaded documents.
C9_Witness ==
    /\ pc = "ui"
    /\ nSearches > 0
    /\ Len(sonnets) = 3
    /\ DOMAIN index # {}

\* text is line without its leading and trailing whitespace.
IsTrimOf(text, line) ==
    \E i \in 0..Len(line) : \E j \in i..Len(line) :
        /\ text = SubSeq(line, i + 1, j)
        /\ \A k \in 1..i : line[k] \in Blank
        /\ \A k \in (j + 1)..Len(line) : line[k] \in Blank
        /\ text = <<>> \/ (text[1] \notin Blank /\ text[Len(text)] \notin Blank)

\* C10: each pass of the read loop reads one line; when its trimmed text is
\* 'q' the loop ends without a search, otherwise exactly one search is made
\* with the trimmed text as the query and the loop goes on; no search
\* follows the end of the loop.
C10_ReadLoop ==
    [][ /\ pc = "ui" =>
            /\ nInputs' = nInputs + 1
            /\ IF IsTrimOf(<<"q">>, raw_input')
               THEN /\ pc' = "returned"
                    /\ nSearches' = nSearches
                    /\ query' = query
               ELSE /\ pc' = "ui"
                    /\ nSearches' = nSearches + 1
                    /\ Len(query') = 1
                    /\ IsTrimOf(query'[1], raw_input')
        /\ pc = "returned" => nSearches' = nSearches ]_vars

\* The loop searched for an empty input, went on, and ended at " q ".
C10_Witness ==
    /\ pc = "returned"
    /\ nInputs = 2
    /\ nSearches = 1
    /\ query = << <<>> >>
    /\ raw_input = SP \o wQ \o SP

====
